---- MODULE Spec2Model ----
(***************************************************************************)
(* State-machine model of lemmy-image-scraper: the run orchestrator        *)
(* (Scraper.Run), the ingestion controller (scrapeWithPagination and       *)
(* scrapePosts), the media locator (extractMediaURLs), the content store   *)
(* (Downloader.DownloadMedia) and the post ledger / media table (DB).      *)
(*                                                                         *)
(* Strings of the program (URLs, file names, group names) are sequences of *)
(* tokens, so that Contains / HasSuffix / Base / Ext / ReplaceAll are      *)
(* computed on them the way the Go code computes them on characters.       *)
(***************************************************************************)
EXTENDS Integers, Sequences, FiniteSets, TLC

(***************************************************************************)
(* Bounds of the model                                                     *)
(***************************************************************************)
MaxPosts == 3          \* largest max_posts_per_run drawn
MaxThreshold == 2      \* largest seen_posts_threshold drawn
MaxFaults == 1         \* database faults injected into one run
MaxRuns == 1           \* scheduled runs of continuous mode after the first one
ApiPageLimit == 2      \* largest page requested (50 in the source, scaled down)

(***************************************************************************)
(* Strings as token sequences                                              *)
(***************************************************************************)
Empty == << >>

UrlA == <<"a.example", "/", "x", ".jpg">>
UrlB == <<"b.example", "/", "x", ".jpg">>
UrlV == <<"a.example", "/", "v", ".mp4">>
UrlT == <<"pictrs", "/", "t">>
UrlP == <<"a.example", "/", "page">>

\* strings.ToLower on one token
LowerTok(t) ==
    IF t = ".JPG" THEN ".jpg" ELSE IF t = ".MP4" THEN ".mp4" ELSE t

ToLower(s) == [i \in 1..Len(s) |-> LowerTok(s[i])]

\* strings.Contains(s, t) for a one-token needle
Contains(s, t) == \E i \in 1..Len(s) : s[i] = t

\* strings.HasSuffix(s, t) for a one-token needle
HasSuffix(s, t) == Len(s) > 0 /\ s[Len(s)] = t

\* does the token hold a '.' character, and its suffix from the last '.'
HasDot(t) ==
    t \in {"a.example", "b.example", ".jpg", ".JPG", ".mp4", ".MP4", ".svg", "..", ".bin", ".png", ".gif", ".webp", ".webm"}

DotSuffix(t) ==
    IF t \in {"a.example", "b.example"} THEN ".example"
    ELSE IF t = ".." THEN "." ELSE t

\* index of the last / first occurrence of a token (0 when absent)
LastIndexOf(s, t) ==
    IF Contains(s, t) THEN CHOOSE i \in 1..Len(s) : s[i] = t /\ \A j \in (i+1)..Len(s) : s[j] # t
    ELSE 0

FirstIndexOf(s, t) ==
    IF Contains(s, t) THEN CHOOSE i \in 1..Len(s) : s[i] = t /\ \A j \in 1..(i-1) : s[j] # t
    ELSE 0

\* strings.Split(s, "?")[0]
BeforeQuery(s) ==
    IF Contains(s, "?") THEN SubSeq(s, 1, FirstIndexOf(s, "?") - 1) ELSE s

\* filepath.Base: the last element of the path ("." for an empty path)
Base(s) ==
    IF Len(s) = 0 THEN <<".">>
    ELSE IF s[Len(s)] = "/" THEN
        (IF Len(s) = 1 THEN <<"/">>
         ELSE LET r == SubSeq(s, 1, Len(s) - 1) IN SubSeq(r, LastIndexOf(r, "/") + 1, Len(r)))
    ELSE SubSeq(s, LastIndexOf(s, "/") + 1, Len(s))

\* filepath.Ext: the suffix from the last '.' of the last path element
Ext(s) ==
    LET from == LastIndexOf(s, "/") + 1
        dots == {i \in from..Len(s) : HasDot(s[i])}
    IN  IF dots = {} THEN Empty
        ELSE LET k == CHOOSE i \in dots : \A j \in dots : j <= i
             IN  <<DotSuffix(s[k])>> \o SubSeq(s, k + 1, Len(s))

(***************************************************************************)
(* filepath.Join: paths are sequences of components; Clean resolves the    *)
(* "." and ".." components and drops empty ones.                           *)
(***************************************************************************)
BaseDir == << <<"downloads">> >>

Join(dir, name) ==
    IF name = Empty \/ name = <<".">> THEN dir
    ELSE IF name = <<"..">> THEN (IF Len(dir) = 0 THEN dir ELSE SubSeq(dir, 1, Len(dir) - 1))
    ELSE Append(dir, name)

(***************************************************************************)
(* Content types of a response (the Content-Type header) and the words     *)
(* strings.Contains looks for in them                                      *)
(***************************************************************************)
CtJpeg == "image/jpeg"
CtMp4 == "video/mp4"
CtNone == ""

CtContains(ct, w) ==
    \/ ct = CtJpeg /\ w \in {"image", "jpeg"}
    \/ ct = CtMp4 /\ w \in {"video", "mp4"}

(***************************************************************************)
(* Pure helpers of the downloader and the scraper                          *)
(***************************************************************************)
ImageExts == {".jpg", ".jpeg", ".png", ".gif", ".webp", ".bmp", ".svg"}
VideoExts == {".mp4", ".webm", ".mov", ".avi", ".mkv", ".m4v", ".flv"}
MediaHosts == {"i.imgur.com", "i.redd.it", "v.redd.it", "preview.redd.it",
               "external-preview.redd.it", "lemmy.world/pictrs", "lemmy.ml/pictrs", "pictrs"}

isMediaURL(url) ==
    LET u == ToLower(url)
    IN  \/ \E e \in ImageExts : Contains(u, e)
        \/ \E e \in VideoExts : Contains(u, e)
        \/ \E h \in MediaHosts : Contains(u, h)

determineMediaType(contentType, url) ==
    LET u == ToLower(url)
    IN  IF \/ CtContains(contentType, "image")
           \/ \E e \in {".jpg", ".jpeg", ".png", ".gif", ".webp", ".bmp"} : HasSuffix(u, e)
        THEN "image"
        ELSE IF \/ CtContains(contentType, "video")
                \/ \E e \in {".mp4", ".webm", ".mov", ".avi", ".mkv", ".m4v"} : HasSuffix(u, e)
        THEN "video"
        ELSE "other"

getFileExtension(contentType, url) ==
    LET urlExt == Ext(url)
    IN  IF urlExt # Empty THEN BeforeQuery(urlExt)
        ELSE IF CtContains(contentType, "jpeg") THEN <<".jpg">>
        ELSE IF CtContains(contentType, "png") THEN <<".png">>
        ELSE IF CtContains(contentType, "gif") THEN <<".gif">>
        ELSE IF CtContains(contentType, "webp") THEN <<".webp">>
        ELSE IF CtContains(contentType, "mp4") THEN <<".mp4">>
        ELSE IF CtContains(contentType, "webm") THEN <<".webm">>
        ELSE <<".bin">>

InvalidPathChars == {"/", "\\", ":", "*", "?", "\"", "<", ">", "|"}

sanitizePath(path) ==
    [i \in 1..Len(path) |-> IF path[i] \in InvalidPathChars THEN "_" ELSE path[i]]

\* mutant: the filter lets every type through
ShouldDownload_All(url, includeImages, includeVideos, includeOther) == TRUE

ShouldDownload(url, includeImages, includeVideos, includeOther) ==
    LET mediaType == determineMediaType(CtNone, url)
    IN  CASE mediaType = "image" -> includeImages
          [] mediaType = "video" -> includeVideos
          [] mediaType = "other" -> includeOther
          [] OTHER -> FALSE

\* mutant: a thumbnail that qualifies is taken along with the primary URL
extractMediaURLs_Thumb(postView) ==
    IF postView.URL # Empty /\ isMediaURL(postView.URL)
    THEN IF postView.ThumbnailURL # Empty /\ isMediaURL(postView.ThumbnailURL)
         THEN <<postView.URL, postView.ThumbnailURL>>
         ELSE <<postView.URL>>
    ELSE IF postView.EmbedVideoURL # Empty /\ isMediaURL(postView.EmbedVideoURL)
    THEN <<postView.EmbedVideoURL>>
    ELSE IF postView.ThumbnailURL # Empty /\ isMediaURL(postView.ThumbnailURL)
    THEN <<postView.ThumbnailURL>>
    ELSE << >>

\* the media locator
extractMediaURLs(postView) ==
    IF postView.URL # Empty /\ isMediaURL(postView.URL)
    THEN IF postView.EmbedVideoURL # Empty /\ isMediaURL(postView.EmbedVideoURL)
         THEN <<postView.URL, postView.EmbedVideoURL>>
         ELSE <<postView.URL>>
    ELSE IF postView.EmbedVideoURL # Empty /\ isMediaURL(postView.EmbedVideoURL)
    THEN <<postView.EmbedVideoURL>>
    ELSE IF postView.ThumbnailURL # Empty /\ isMediaURL(postView.ThumbnailURL)
    THEN <<postView.ThumbnailURL>>
    ELSE << >>

\* SHA-256 of the bytes, hex-encoded: collision-free on the payloads drawn
HashContent(content) == <<"sha256">> \o [i \in 1..Len(content) |-> ToString(content[i])]

\* destination file name of a download (postID_originalname or postID.ext)
FileNameFor(mediaURL, postID, fileExt) ==
    LET originalName == BeforeQuery(Base(mediaURL))
        fileName == <<ToString(postID), "_">> \o originalName
    IN  IF \E i \in 1..Len(fileName) : HasDot(fileName[i])
        THEN fileName
        ELSE <<ToString(postID)>> \o fileExt

(***************************************************************************)
(* What the environment can return                                         *)
(***************************************************************************)
\* payloads a URL can serve (byte sequences)
Contents == {<<7, 1>>, <<7, 2>>}

ContentTypes == {CtJpeg, CtMp4, CtNone}

\* posts the feed can list: ID, primary / embedded-video / thumbnail URL, group
PostViews ==
    { [ID |-> 1, URL |-> UrlA, EmbedVideoURL |-> UrlB, ThumbnailURL |-> UrlT, Community |-> <<"pics">>],
      [ID |-> 2, URL |-> UrlV, EmbedVideoURL |-> Empty, ThumbnailURL |-> UrlT, Community |-> <<"pics">>],
      [ID |-> 3, URL |-> UrlP, EmbedVideoURL |-> Empty, ThumbnailURL |-> Empty, Community |-> <<"memes">>] }

\* one call of DownloadMedia sees one of these: a failed fetch, or a payload
\* together with at most one failing storage step
StoreFaults == {"none", "exists", "get", "mkdir", "open", "save"}

EnvsOver(bodies, ctypes) ==
    [http : {"neterr", "status", "readerr"}]
    \cup [http : {"ok"}, body : bodies, ctype : ctypes, fault : StoreFaults]
    \cup [http : {"ok"}, body : bodies, ctype : ctypes, fault : {"write"}, cut : 0..1]

Envs == EnvsOver(Contents, ContentTypes)

FeedContents == {<<7, 1>>}

\* the responses drawn when a whole run is explored: a failed fetch, a
\* payload stored without fault, a payload whose insert fails
FeedEnvs ==
    [http : {"neterr"}]
    \cup [http : {"ok"}, body : FeedContents, ctype : {CtJpeg}, fault : {"none", "save"}]

VARIABLES
    media,          \* rows of table scraped_media
    scrapedPosts,   \* rows of table scraped_posts (the ledger)
    files,          \* files on disk: records [path, content]
    dirs            \* directories created on disk

store == <<media, scrapedPosts, files, dirs>>

(***************************************************************************)
(* Database operations                                                     *)
(***************************************************************************)
\* mutant: the lookup never finds the fingerprint
MediaExists_Miss(hash) == FALSE

MediaExists(hash) == \E m \in media : m.MediaHash = hash

GetMediaByHash(hash) == CHOOSE m \in media : m.MediaHash = hash

PostExists(postID) == \E r \in scrapedPosts : r.post_id = postID

\* mutant: INSERT OR IGNORE, the first row of a post is kept
MarkPostAsScraped_Ignore(postView, mediaCount) ==
    IF PostExists(postView.ID) THEN scrapedPosts
    ELSE scrapedPosts \cup {[post_id |-> postView.ID, had_media |-> mediaCount > 0, media_count |-> mediaCount]}

\* mutant: the table is emptied before the row is written
MarkPostAsScraped_Only(postView, mediaCount) ==
    {[post_id |-> postView.ID, had_media |-> mediaCount > 0, media_count |-> mediaCount]}

\* mutant: only posts that yielded media get a row
MarkPostAsScraped_MediaOnly(postView, mediaCount) ==
    IF mediaCount = 0 THEN scrapedPosts
    ELSE {r \in scrapedPosts : r.post_id # postView.ID}
         \cup {[post_id |-> postView.ID, had_media |-> TRUE, media_count |-> mediaCount]}

\* INSERT OR REPLACE INTO scraped_posts: the new table
MarkPostAsScraped(postView, mediaCount) ==
    {r \in scrapedPosts : r.post_id # postView.ID}
    \cup {[post_id |-> postView.ID, had_media |-> mediaCount > 0, media_count |-> mediaCount]}

\* mutant: scraped_media without UNIQUE(post_id, media_url)
MediaConstraint_HashOnly(m) ==
    IF \E x \in media : x.MediaHash = m.MediaHash
    THEN "UNIQUE constraint failed: scraped_media.media_hash"
    ELSE ""

\* the constraint of scraped_media an INSERT of m violates ("" when none)
MediaConstraint(m) ==
    IF \E x \in media : x.MediaHash = m.MediaHash
    THEN "UNIQUE constraint failed: scraped_media.media_hash"
    ELSE IF \E x \in media : x.PostID = m.PostID /\ x.MediaURL = m.MediaURL
    THEN "UNIQUE constraint failed: scraped_media.post_id, scraped_media.media_url"
    ELSE ""

\* INSERT INTO scraped_media: [err, media]; the row gets the next AUTOINCREMENT id
SaveMedia(m, ioFails) ==
    IF ioFails THEN [err |-> <<"failed to save media", "disk I/O error">>, media |-> media]
    ELSE IF MediaConstraint(m) # "" THEN [err |-> <<"failed to save media", MediaConstraint(m)>>, media |-> media]
    ELSE [err |-> Empty, media |-> media \cup {[m EXCEPT !.ID = Cardinality(media) + 1]}]

(***************************************************************************)
(* File system operations                                                  *)
(***************************************************************************)
WriteFile(fs, path, content) ==
    {f \in fs : f.path # path} \cup {[path |-> path, content |-> content]}

Remove(fs, path) == {f \in fs : f.path # path}

(***************************************************************************)
(* Downloader.DownloadMedia: the outcome of one call under environment e:  *)
(* [err, result, media, files, dirs, fetches]                              *)
(***************************************************************************)
NoMedia == [ID |-> 0]

\* mutant: a failing call has fetched the URL once more before giving up
Failed_Retry(msg, nfetch) ==
    [err |-> msg, result |-> NoMedia, media |-> media, files |-> files, dirs |-> dirs, fetches |-> nfetch + 1]

Failed(msg, nfetch) ==
    [err |-> msg, result |-> NoMedia, media |-> media, files |-> files, dirs |-> dirs, fetches |-> nfetch]

\* the record DownloadMedia builds for new content
NewRecord(mediaURL, postView, e) ==
    LET fileName == FileNameFor(mediaURL, postView.ID, getFileExtension(e.ctype, mediaURL))
    IN  [ID |-> 0, PostID |-> postView.ID, CommunityName |-> postView.Community,
         MediaURL |-> mediaURL, MediaHash |-> HashContent(e.body), FileName |-> fileName,
         FilePath |-> Append(Join(BaseDir, sanitizePath(postView.Community)), fileName),
         FileSize |-> Len(e.body), MediaType |-> determineMediaType(e.ctype, mediaURL)]

\* the part of DownloadMedia after the dedup check: make the directory, write
\* the file, insert the row (saved is what the INSERT gives), remove the
\* file if the insert failed
StoreNewWith(saved, mediaURL, postView, e) ==
    LET content == e.body
        hash == HashContent(content)
        communityDir == Join(BaseDir, sanitizePath(postView.Community))
        filePath == NewRecord(mediaURL, postView, e).FilePath
    IN
    IF e.fault = "mkdir" THEN Failed(<<"failed to create community directory">>, 1)
    ELSE IF e.fault = "open"
    THEN [Failed(<<"failed to write file">>, 1) EXCEPT !.dirs = dirs \cup {communityDir}]
    ELSE IF e.fault = "write"
    THEN [Failed(<<"failed to write file">>, 1) EXCEPT
             !.dirs = dirs \cup {communityDir},
             !.files = WriteFile(files, filePath, SubSeq(content, 1, e.cut))]
    ELSE
    IF saved.err # Empty
    THEN [Failed(<<"failed to save media to database">> \o saved.err, 1) EXCEPT
             !.dirs = dirs \cup {communityDir},
             !.files = Remove(WriteFile(files, filePath, content), filePath)]
    ELSE [err |-> Empty,
          result |-> CHOOSE m \in saved.media : m.MediaHash = hash /\ m \notin media,
          media |-> saved.media,
          files |-> WriteFile(files, filePath, content),
          dirs |-> dirs \cup {communityDir},
          fetches |-> 1]

StoreNew(mediaURL, postView, e) ==
    StoreNewWith(SaveMedia(NewRecord(mediaURL, postView, e), e.fault = "save"), mediaURL, postView, e)

\* mutant: no dedup check, and a table without its UNIQUE constraints
SaveMedia_NoUnique(m, ioFails) ==
    IF ioFails THEN [err |-> <<"failed to save media", "disk I/O error">>, media |-> media]
    ELSE [err |-> Empty, media |-> media \cup {[m EXCEPT !.ID = Cardinality(media) + 1]}]

DownloadMedia_NoDedup(mediaURL, postView, e) ==
    IF mediaURL = Empty THEN Failed(<<"empty media URL">>, 0)
    ELSE IF e.http = "neterr" THEN Failed(<<"failed to download media">>, 1)
    ELSE IF e.http = "status" THEN Failed(<<"download failed with status">>, 1)
    ELSE IF e.http = "readerr" THEN Failed(<<"failed to read media content">>, 1)
    ELSE StoreNewWith(SaveMedia_NoUnique(NewRecord(mediaURL, postView, e), e.fault = "save"),
                      mediaURL, postView, e)

DownloadMedia(mediaURL, postView, e) ==
    IF mediaURL = Empty THEN Failed(<<"empty media URL">>, 0)
    ELSE IF e.http = "neterr" THEN Failed(<<"failed to download media">>, 1)
    ELSE IF e.http = "status" THEN Failed(<<"download failed with status">>, 1)
    ELSE IF e.http = "readerr" THEN Failed(<<"failed to read media content">>, 1)
    ELSE IF e.fault = "exists" THEN Failed(<<"failed to check media existence">>, 1)
    ELSE IF MediaExists(HashContent(e.body)) THEN
        (IF e.fault = "get" THEN Failed(<<"failed to get existing media">>, 1)
         ELSE [err |-> Empty, result |-> GetMediaByHash(HashContent(e.body)), media |-> media,
               files |-> files, dirs |-> dirs, fetches |-> 1])
    ELSE StoreNew(mediaURL, postView, e)

(***************************************************************************)
(* The scraper: configuration, run state of one source's ingestion, and    *)
(* the position of the single thread of control                            *)
(***************************************************************************)
VARIABLES
    cfg,                    \* Config.Scraper and Config.Lemmy.Communities
    build,                  \* which copy of scrapeWithPagination/scrapePosts runs (1 or 2)
    scrapedComments,        \* post ids that have rows in scraped_comments (build 2)
    pc,                     \* "start", "source", "loop", "triage", "media", "pageDone", "exit", "shutdown"
    sigChan,                \* runContinuous: the signal channel (capacity 1)
    tickPending,            \* runContinuous: a tick waits in ticker.C (capacity 1)
    runs,                   \* runContinuous: scheduled runs started so far
    srcIdx,                 \* index of the source being ingested in this run
    page, totalDownloaded, totalSkipped, totalErrors, totalProcessed,
    consecutiveSeenPosts,   \* locals of scrapeWithPagination
    limit,                  \* params.Limit of the page in progress
    posts, postIdx,         \* postsResp.Posts and the position of the range loop
    pageRes,                \* locals / return values of scrapePosts
    mediaURLs, urlIdx, mediaDownloaded,   \* locals of the media loop of one post
    fetched,                \* history: page requests of this run, [src, source, page, limit, ok]
    journal,                \* history: [ev, src, page, idx, d] for ev = "triage", "acquire", "mark"
    halts,                  \* history: where the seen-threshold stopped a page, [src, page, idx]
    postLog,                \* history: what was done for the post in progress
    last,                   \* history: the last operation and its outcome
    ingested,               \* history: [post, url, hash] of the DownloadMedia calls that returned a record
    faults                  \* history: database faults injected so far in this run

ctl == <<pc, srcIdx, page, totalDownloaded, totalSkipped, totalErrors, totalProcessed,
         consecutiveSeenPosts, limit, posts, postIdx, pageRes, mediaURLs, urlIdx, mediaDownloaded>>

hist == <<fetched, journal, halts, postLog, last, ingested, faults>>

sched == <<sigChan, tickPending, runs>>

vars == <<media, scrapedPosts, files, dirs, cfg, build, scrapedComments, pc, srcIdx, page,
          totalDownloaded, totalSkipped, totalErrors, totalProcessed, consecutiveSeenPosts,
          limit, posts, postIdx, pageRes, mediaURLs, urlIdx, mediaDownloaded,
          fetched, journal, halts, postLog, last, ingested, faults, sigChan, tickPending, runs>>

min(a, b) == IF a < b THEN a ELSE b

\* the inclusion flags SetDefaults can leave (never all three off)
IncludeFlags == {<<TRUE, TRUE, TRUE>>, <<TRUE, FALSE, TRUE>>}

\* the configurations drawn; the threshold is read only under stop_at_seen_posts
AllConfigs ==
    { [MaxPostsPerRun |-> m, StopAtSeenPosts |-> st, SkipSeenPosts |-> sk, EnablePagination |-> pg,
       SeenPostsThreshold |-> th, IncludeImages |-> inc[1], IncludeVideos |-> inc[2],
       IncludeOtherMedia |-> inc[3], Communities |-> cs] :
      m \in 1..MaxPosts, st \in BOOLEAN, sk \in BOOLEAN, pg \in BOOLEAN, th \in 1..MaxThreshold,
      inc \in IncludeFlags, cs \in {<< >>} }

\* mutant: enable_pagination is read as set
PaginationEnabled_On(c) == TRUE

\* the enable_pagination field as the program reads it
PaginationEnabled(c) == c.EnablePagination

\* Config.SetDefaults on the fields drawn (none of them is zero): without
\* pagination max_posts_per_run is cut to one page
SetDefaults(c) ==
    [c EXCEPT !.MaxPostsPerRun = IF ~PaginationEnabled(c) /\ @ > ApiPageLimit THEN ApiPageLimit ELSE @]

\* the configurations main hands to the scraper
Configs ==
    {SetDefaults(c) : c \in {x \in AllConfigs : x.StopAtSeenPosts \/ x.SeenPostsThreshold = 1}}

\* mutant: the hot page is scraped before the configured communities
Sources_HotFirst == <<"hot">> \o cfg.Communities

\* the sources Run ingests: the hot page, or each configured community
Sources == IF Len(cfg.Communities) = 0 THEN <<"hot">> ELSE cfg.Communities

NoPageRes == [downloaded |-> 0, skipped |-> 0, errors |-> 0, postsReturned |-> 0, shouldStop |-> FALSE]

\* ledgers an earlier process can have left in the database file: any set of
\* the posts, visited in a run of which every download failed
PriorLedgers ==
    { {[post_id |-> pv.ID, had_media |-> FALSE, media_count |-> 0] : pv \in S} : S \in SUBSET PostViews }

\* the state after main has opened the database and built the Scraper
InitWith(configs, ledgers) ==
    /\ media = {} /\ files = {} /\ dirs = {}
    /\ scrapedPosts \in ledgers
    /\ scrapedComments = {}
    /\ cfg \in configs
    /\ build \in {1, 2}
    /\ pc = "start" /\ srcIdx = 0
    /\ page = 0 /\ totalDownloaded = 0 /\ totalSkipped = 0 /\ totalErrors = 0 /\ totalProcessed = 0
    /\ consecutiveSeenPosts = 0
    /\ limit = 0 /\ posts = << >> /\ postIdx = 0
    /\ pageRes = NoPageRes
    /\ mediaURLs = << >> /\ urlIdx = 0 /\ mediaDownloaded = 0
    /\ fetched = << >> /\ journal = {} /\ halts = {} /\ postLog = << >>
    /\ last = [op |-> "init"]
    /\ ingested = {}
    /\ faults = 0
    /\ sigChan = << >> /\ tickPending = FALSE /\ runs = 0

Init == InitWith(Configs, PriorLedgers)

\* Scraper.Run is called
Run ==
    /\ pc = "start"
    /\ pc' = "source" /\ srcIdx' = 1
    /\ last' = [op |-> "Run"]
    /\ UNCHANGED <<sched, ingested, store, cfg, build, scrapedComments, page, totalDownloaded, totalSkipped, totalErrors,
                   totalProcessed, consecutiveSeenPosts, limit, posts, postIdx, pageRes,
                   mediaURLs, urlIdx, mediaDownloaded, fetched, journal, halts, postLog, faults>>

\* Run has gone through every source and returns
RunReturn ==
    /\ pc = "source" /\ srcIdx > Len(Sources)
    /\ pc' = "exit"
    /\ last' = [op |-> "RunReturn"]
    /\ UNCHANGED <<sched, ingested, store, cfg, build, scrapedComments, srcIdx, page, totalDownloaded, totalSkipped,
                   totalErrors, totalProcessed, consecutiveSeenPosts, limit, posts, postIdx, pageRes,
                   mediaURLs, urlIdx, mediaDownloaded, fetched, journal, halts, postLog, faults>>

\* mutant: the counter of seen posts is kept from the source before
SeenAtEntry_Carried == consecutiveSeenPosts

\* the counter of seen posts a source's ingestion starts with
SeenAtEntry == 0

\* scrapeWithPagination is entered for the next source: fresh run state
scrapeWithPagination ==
    /\ pc = "source" /\ srcIdx <= Len(Sources)
    /\ totalDownloaded' = 0 /\ totalSkipped' = 0 /\ totalErrors' = 0 /\ totalProcessed' = 0
    /\ consecutiveSeenPosts' = SeenAtEntry
    /\ page' = 1
    /\ pc' = "loop"
    /\ last' = [op |-> "scrapeWithPagination", source |-> Sources[srcIdx]]
    /\ UNCHANGED <<sched, ingested, store, cfg, build, scrapedComments, srcIdx, limit, posts, postIdx, pageRes,
                   mediaURLs, urlIdx, mediaDownloaded, fetched, journal, halts, postLog, faults>>

\* top of the pagination loop: the maximum is reached, the source is done
LimitReached ==
    /\ pc = "loop"
    /\ cfg.MaxPostsPerRun - totalProcessed <= 0
    /\ pc' = "source" /\ srcIdx' = srcIdx + 1
    /\ last' = [op |-> "LimitReached"]
    /\ UNCHANGED <<sched, ingested, store, cfg, build, scrapedComments, page, totalDownloaded, totalSkipped,
                   totalErrors, totalProcessed, consecutiveSeenPosts, limit, posts, postIdx, pageRes,
                   mediaURLs, urlIdx, mediaDownloaded, fetched, journal, halts, postLog, faults>>

\* mutant: every request asks for a whole page
PageLimit_Whole(remainingPosts) == ApiPageLimit

\* params.Limit of the next request
PageLimit(remainingPosts) == min(ApiPageLimit, remainingPosts)

\* the posts the instance lists for a source: all of them on the hot page,
\* those of the group for a community
FeedOf(source) ==
    IF source = "hot" THEN PostViews ELSE {pv \in PostViews : pv.Community = <<source>>}

\* pages of at most n posts the feed can return for the source in progress
Pages(n) == UNION {[1..k -> FeedOf(Sources[srcIdx])] : k \in 0..n}

\* top of the pagination loop and entry of scrapePosts: one page is requested
GetPosts ==
    /\ pc = "loop"
    /\ cfg.MaxPostsPerRun - totalProcessed > 0
    /\ LET remainingPosts == cfg.MaxPostsPerRun - totalProcessed
           lim == PageLimit(remainingPosts)
       IN  /\ limit' = lim
           /\ \/ \* the request fails
                 /\ fetched' = Append(fetched, [src |-> srcIdx, source |-> Sources[srcIdx], page |-> page,
                                                limit |-> lim, ok |-> FALSE])
                 /\ posts' = << >> /\ postIdx' = 0
                 /\ pageRes' = [NoPageRes EXCEPT !.errors = 1, !.shouldStop = TRUE]
                 /\ pc' = "pageDone"
                 /\ last' = [op |-> "GetPosts", ok |-> FALSE]
              \/ \E ps \in Pages(lim) :
                 /\ fetched' = Append(fetched, [src |-> srcIdx, source |-> Sources[srcIdx], page |-> page,
                                                limit |-> lim, ok |-> TRUE])
                 /\ posts' = ps /\ postIdx' = 1
                 /\ pageRes' = [NoPageRes EXCEPT !.postsReturned = Len(ps)]
                 /\ pc' = "triage"
                 /\ last' = [op |-> "GetPosts", ok |-> TRUE]
    /\ UNCHANGED <<sched, ingested, store, cfg, build, scrapedComments, srcIdx, page, totalDownloaded, totalSkipped,
                   totalErrors, totalProcessed, consecutiveSeenPosts, mediaURLs, urlIdx,
                   mediaDownloaded, journal, halts, postLog, faults>>

\* the post the range loop of scrapePosts is at
CurPost == posts[postIdx]

\* mutant: the page stops one seen post after the threshold
StopAtSeen_Late(seen) == cfg.StopAtSeenPosts /\ seen > cfg.SeenPostsThreshold

\* mutant: under stop_at_seen_posts any seen post stops the page
StopAtSeen_First(seen) == cfg.StopAtSeenPosts

\* the seen-post policy: stop the page at the threshold, else skip the post
StopAtSeen(seen) == cfg.StopAtSeenPosts /\ seen >= cfg.SeenPostsThreshold

\* mutant: a seen post is skipped whatever the flags are
SkipSeen_Always == TRUE

\* mutant: only skip_seen_posts skips a seen post
SkipSeen_Only == cfg.SkipSeenPosts

SkipSeen == cfg.SkipSeenPosts \/ cfg.StopAtSeenPosts

\* mutant: a new post leaves the counter of seen posts as it is
SeenAfterNew_Keep == consecutiveSeenPosts

\* the counter of seen posts after a post that has no ledger row
SeenAfterNew == 0

\* mutant: a post whose ledger lookup failed is counted as a seen post
SeenAfterLookupError_Counted == consecutiveSeenPosts + 1

\* the counter of seen posts after a ledger lookup that failed: the loop
\* continues before it touches the counter
SeenAfterLookupError == consecutiveSeenPosts

\* the body of the range loop up to the media loop: the ledger lookup and
\* the seen-post policy for one post
TriagePost ==
    /\ pc = "triage" /\ postIdx <= Len(posts)
    /\ \E lookupFails \in {FALSE} \cup {faults < MaxFaults} :
       /\ faults' = IF lookupFails THEN faults + 1 ELSE faults
       /\ LET exists == PostExists(CurPost.ID)
              seen == consecutiveSeenPosts + 1
              stop == StopAtSeen(seen)
              skip == SkipSeen
              at(d) == [ev |-> "triage", src |-> srcIdx, page |-> page, idx |-> postIdx, d |-> d]
          IN  IF lookupFails THEN
                  /\ postIdx' = postIdx + 1
                  /\ last' = [op |-> "TriagePost", post |-> CurPost.ID, lookup |-> "failed", decision |-> "continue"]
                  /\ journal' = journal \cup {at("continue")}
                  /\ postLog' = << >>
                  /\ consecutiveSeenPosts' = SeenAfterLookupError
                  /\ UNCHANGED <<pc, pageRes, mediaURLs, urlIdx, mediaDownloaded, halts>>
              ELSE IF exists /\ stop THEN
                  /\ consecutiveSeenPosts' = seen
                  /\ pageRes' = [pageRes EXCEPT !.shouldStop = TRUE]
                  /\ halts' = halts \cup {[src |-> srcIdx, page |-> page, idx |-> postIdx]}
                  /\ pc' = "pageDone"
                  /\ last' = [op |-> "TriagePost", post |-> CurPost.ID, lookup |-> "seen", decision |-> "stop"]
                  /\ journal' = journal \cup {at("stop")}
                  /\ postLog' = << >>
                  /\ UNCHANGED <<postIdx, mediaURLs, urlIdx, mediaDownloaded>>
              ELSE IF exists /\ skip THEN
                  /\ consecutiveSeenPosts' = seen
                  /\ pageRes' = [pageRes EXCEPT !.skipped = @ + 1]
                  /\ postIdx' = postIdx + 1
                  /\ last' = [op |-> "TriagePost", post |-> CurPost.ID, lookup |-> "seen", decision |-> "skip"]
                  /\ journal' = journal \cup {at("skip")}
                  /\ postLog' = << >>
                  /\ UNCHANGED <<pc, mediaURLs, urlIdx, mediaDownloaded, halts>>
              ELSE
                  /\ consecutiveSeenPosts' = IF exists THEN seen ELSE SeenAfterNew
                  /\ mediaURLs' = extractMediaURLs(CurPost)
                  /\ urlIdx' = 1
                  /\ mediaDownloaded' = 0
                  /\ pc' = "media"
                  /\ last' = [op |-> "TriagePost", post |-> CurPost.ID,
                              lookup |-> IF exists THEN "seen" ELSE "new", decision |-> "process"]
                  /\ journal' = journal \cup {at(IF exists THEN "reprocess" ELSE "process")}
                  /\ postLog' = <<[ev |-> "locate", n |-> Len(extractMediaURLs(CurPost))]>>
                  /\ UNCHANGED <<postIdx, pageRes, halts>>
    /\ UNCHANGED <<sched, ingested, store, cfg, build, scrapedComments, srcIdx, page, totalDownloaded, totalSkipped,
                   totalErrors, totalProcessed, limit, posts, fetched>>

\* how scrapePosts counts the outcome of one DownloadMedia call
Classify(err) ==
    IF err = Empty THEN "downloaded"
    ELSE IF Contains(err, "already exists") THEN "skipped"
    ELSE "error"

\* mutant: an error ends the media loop of the post
NextUrlIdx_Abort(counted) == IF counted = "error" THEN Len(mediaURLs) + 1 ELSE urlIdx + 1

\* the media loop goes on with the next URL whatever the outcome was
NextUrlIdx(counted) == urlIdx + 1

\* one iteration of the media loop: the type filter, then DownloadMedia
ProcessMedia ==
    /\ pc = "media" /\ urlIdx <= Len(mediaURLs)
    /\ LET mediaURL == mediaURLs[urlIdx]
       IN  IF ~ShouldDownload(mediaURL, cfg.IncludeImages, cfg.IncludeVideos, cfg.IncludeOtherMedia)
           THEN /\ pageRes' = [pageRes EXCEPT !.skipped = @ + 1]
                /\ postLog' = Append(postLog, [ev |-> "filtered", url |-> mediaURL])
                /\ last' = [op |-> "ProcessMedia", url |-> mediaURL, counted |-> "skipped", called |-> FALSE]
                /\ urlIdx' = NextUrlIdx("skipped")
                /\ UNCHANGED <<store, mediaDownloaded, journal, ingested, faults>>
           ELSE \E e \in FeedEnvs :
                \E r \in {DownloadMedia(mediaURL, CurPost, e)} :
                LET counted == Classify(r.err)
                    faulty == e.http = "ok" /\ e.fault # "none"
                IN  /\ faulty => faults < MaxFaults
                    /\ faults' = IF faulty THEN faults + 1 ELSE faults
                    /\ urlIdx' = NextUrlIdx(counted)
                    /\ media' = r.media /\ files' = r.files /\ dirs' = r.dirs
                    /\ UNCHANGED scrapedPosts
                    /\ pageRes' = [pageRes EXCEPT
                           !.downloaded = IF counted = "downloaded" THEN @ + 1 ELSE @,
                           !.skipped = IF counted = "skipped" THEN @ + 1 ELSE @,
                           !.errors = IF counted = "error" THEN @ + 1 ELSE @]
                    /\ mediaDownloaded' = IF counted = "downloaded" THEN mediaDownloaded + 1 ELSE mediaDownloaded
                    /\ postLog' = Append(postLog, [ev |-> "acquire", url |-> mediaURL, new |-> r.media # media])
                    /\ journal' = journal \cup {[ev |-> "acquire", src |-> srcIdx, page |-> page, idx |-> postIdx, d |-> "-"]}
                    /\ last' = [op |-> "ProcessMedia", url |-> mediaURL, counted |-> counted, called |-> TRUE,
                                err |-> r.err,
                                hash |-> IF e.http = "ok" THEN HashContent(e.body) ELSE Empty,
                                existed |-> (e.http = "ok" /\ \E m \in media : m.MediaHash = HashContent(e.body))]
                    /\ ingested' = IF r.err = Empty
                                   THEN ingested \cup {[post |-> CurPost.ID, url |-> mediaURL, hash |-> HashContent(e.body)]}
                                   ELSE ingested
    /\ UNCHANGED <<sched, cfg, build, scrapedComments, pc, srcIdx, page, totalDownloaded, totalSkipped,
                   totalErrors, totalProcessed, consecutiveSeenPosts, limit, posts, postIdx,
                   mediaURLs, fetched, halts>>

\* after the media loop: the post is marked as scraped (and, in build 2, its
\* comments are fetched when it yielded media), then the range loop goes on
MarkVisited ==
    /\ pc = "media" /\ urlIdx > Len(mediaURLs)
    /\ \E markFails \in {FALSE} \cup {faults < MaxFaults} :
       /\ faults' = IF markFails THEN faults + 1 ELSE faults
       /\ scrapedPosts' = IF markFails THEN scrapedPosts ELSE MarkPostAsScraped(CurPost, mediaDownloaded)
       /\ last' = [op |-> "MarkVisited", post |-> CurPost.ID, count |-> mediaDownloaded, ok |-> ~markFails]
    /\ IF build = 2 /\ mediaDownloaded > 0 /\ CurPost.ID \notin scrapedComments
       THEN \E saved \in BOOLEAN :
            scrapedComments' = IF saved THEN scrapedComments \cup {CurPost.ID} ELSE scrapedComments
       ELSE UNCHANGED scrapedComments
    /\ postLog' = Append(postLog, [ev |-> "mark", n |-> mediaDownloaded])
    /\ journal' = journal \cup {[ev |-> "mark", src |-> srcIdx, page |-> page, idx |-> postIdx, d |-> "-"]}
    /\ postIdx' = postIdx + 1
    /\ pc' = "triage"
    /\ UNCHANGED <<sched, ingested, media, files, dirs, cfg, build, srcIdx, page, totalDownloaded, totalSkipped,
                   totalErrors, totalProcessed, consecutiveSeenPosts, limit, posts, pageRes,
                   mediaURLs, urlIdx, mediaDownloaded, fetched, halts>>

\* the range loop is over: scrapePosts returns with shouldStop = false
PageReturn ==
    /\ pc = "triage" /\ postIdx > Len(posts)
    /\ pc' = "pageDone"
    /\ last' = [op |-> "PageReturn"]
    /\ UNCHANGED <<sched, ingested, store, cfg, build, scrapedComments, srcIdx, page, totalDownloaded, totalSkipped,
                   totalErrors, totalProcessed, consecutiveSeenPosts, limit, posts, postIdx, pageRes,
                   mediaURLs, urlIdx, mediaDownloaded, fetched, journal, halts, postLog, faults>>

\* what one page adds to totalProcessed
PageUnits1 == pageRes.downloaded + pageRes.skipped

PageUnits2 == pageRes.postsReturned

PageUnits == IF build = 1 THEN PageUnits1 ELSE PageUnits2

\* mutant: the page's units are not added to totalProcessed
Processed_Stuck(units) == totalProcessed

\* totalProcessed after the page's units are added
Processed(units) == totalProcessed + units

\* why the pagination loop ends after this page ("next" when it goes on)
PageVerdict ==
    IF pageRes.shouldStop THEN "stop"
    ELSE IF PageUnits < limit THEN "end of feed"
    ELSE IF ~PaginationEnabled(cfg) THEN "pagination disabled"
    ELSE "next"

\* mutant: a source whose page request failed ends the run
NextSource_Abort(failed) == IF failed THEN Len(Sources) + 1 ELSE srcIdx + 1

\* the range loop of Run goes on with the next community whatever
\* scrapeCommunity returned
NextSource(failed) == srcIdx + 1

\* mutant: the pagination loop leaves a page out
NextPage_Gap == page + 2

\* page++ at the end of the pagination loop
NextPage == page + 1

\* mutant: the counter of seen posts starts every page as it starts a source
seenInRow_Reset == SeenAtEntry

\* the counter of seen posts scrapePosts returns, kept for the next page
seenInRow == consecutiveSeenPosts

\* scrapeWithPagination after scrapePosts returned: the accounting and the
\* stop conditions
PageDone ==
    /\ pc = "pageDone"
    /\ totalDownloaded' = totalDownloaded + pageRes.downloaded
    /\ totalSkipped' = totalSkipped + pageRes.skipped
    /\ totalErrors' = totalErrors + pageRes.errors
    /\ totalProcessed' = Processed(PageUnits)
    /\ IF PageVerdict = "next"
       THEN /\ page' = NextPage /\ pc' = "loop" /\ UNCHANGED srcIdx
       ELSE /\ pc' = "source" /\ srcIdx' = NextSource(~fetched[Len(fetched)].ok) /\ UNCHANGED page
    /\ consecutiveSeenPosts' = seenInRow
    /\ last' = [op |-> "PageDone", verdict |-> PageVerdict]
    /\ UNCHANGED <<sched, ingested, store, cfg, build, scrapedComments, limit, posts, postIdx,
                   pageRes, mediaURLs, urlIdx, mediaDownloaded, fetched, journal, halts, postLog, faults>>

Next ==
    \/ Run
    \/ RunReturn
    \/ scrapeWithPagination
    \/ LimitReached
    \/ GetPosts
    \/ TriagePost
    \/ ProcessMedia
    \/ MarkVisited
    \/ PageReturn
    \/ PageDone

Spec == Init /\ [][Next]_vars

(***************************************************************************)
(* Continuous mode: runContinuous calls Run, then waits for a tick of the  *)
(* ticker or a signal; signals and ticks arrive at any time                *)
(***************************************************************************)
\* mutant: the signal is not relayed to a channel and ends the process
Signal_Kill ==
    /\ pc # "shutdown"
    /\ pc' = "shutdown"
    /\ last' = [op |-> "Signal"]
    /\ UNCHANGED <<store, cfg, build, scrapedComments, srcIdx, page, totalDownloaded, totalSkipped,
                   totalErrors, totalProcessed, consecutiveSeenPosts, limit, posts, postIdx, pageRes,
                   mediaURLs, urlIdx, mediaDownloaded, fetched, journal, halts, postLog, ingested,
                   faults, sched>>

\* the operating system delivers SIGINT or SIGTERM: signal.Notify puts it in
\* the channel if there is room (the message notes when it arrived)
Signal ==
    /\ pc # "shutdown" /\ sigChan = << >>
    /\ sigChan' = <<[during |-> pc, fetchedBefore |-> Len(fetched),
                      mediaBefore |-> Cardinality(media), ledgerBefore |-> Cardinality(scrapedPosts)]>>
    /\ UNCHANGED <<store, cfg, build, scrapedComments, ctl, hist, tickPending, runs>>

\* the ticker fires: the tick is kept if none is waiting
Tick ==
    /\ pc # "shutdown" /\ ~tickPending
    /\ tickPending' = TRUE
    /\ UNCHANGED <<store, cfg, build, scrapedComments, ctl, hist, sigChan, runs>>

\* select takes the tick: a scheduled run starts
SelectTick ==
    /\ pc = "exit" /\ tickPending /\ runs < MaxRuns
    /\ tickPending' = FALSE /\ runs' = runs + 1
    /\ pc' = "start" /\ srcIdx' = 0
    /\ fetched' = << >> /\ journal' = {} /\ halts' = {} /\ postLog' = << >> /\ faults' = 0
    /\ last' = [op |-> "SelectTick"]
    /\ UNCHANGED <<store, cfg, build, scrapedComments, page, totalDownloaded, totalSkipped, totalErrors,
                   totalProcessed, consecutiveSeenPosts, limit, posts, postIdx, pageRes, mediaURLs,
                   urlIdx, mediaDownloaded, ingested, sigChan>>

\* select takes the signal: runContinuous returns
SelectSignal ==
    /\ pc = "exit" /\ sigChan # << >>
    /\ sigChan' = << >>
    /\ pc' = "shutdown"
    /\ last' = [op |-> "SelectSignal"]
    /\ UNCHANGED <<store, cfg, build, scrapedComments, srcIdx, page, totalDownloaded, totalSkipped,
                   totalErrors, totalProcessed, consecutiveSeenPosts, limit, posts, postIdx, pageRes,
                   mediaURLs, urlIdx, mediaDownloaded, fetched, journal, halts, postLog, ingested,
                   faults, tickPending, runs>>

NextContinuous ==
    \/ Next
    \/ Signal
    \/ Tick
    \/ SelectTick
    \/ SelectSignal

\* one configuration: a maximum of one post, pagination and stop-on-seen on
ContinuousConfigs ==
    {c \in Configs : /\ c.MaxPostsPerRun = 1 /\ c.EnablePagination
                     /\ c.StopAtSeenPosts /\ ~c.SkipSeenPosts /\ c.SeenPostsThreshold = 1
                     /\ c.IncludeVideos}

InitContinuous == InitWith(ContinuousConfigs, {{}})

SpecContinuous == InitContinuous /\ [][NextContinuous]_vars

\* the goroutine that runs the scraper keeps taking steps while a run is in
\* flight; signals and ticks are under no obligation
SpecContinuousLive == SpecContinuous /\ WF_vars(Next)

(***************************************************************************)
(* A run over configured communities: the same program with               *)
(* lemmy.communities set                                                   *)
(***************************************************************************)
SourceLists == {<<"pics", "memes">>}

\* the type filter is left open here: it plays no part between sources
SourceConfigs ==
    {[c EXCEPT !.Communities = cs] : c \in {x \in Configs : x.IncludeVideos}, cs \in SourceLists}

InitSources == InitWith(SourceConfigs, PriorLedgers)

SpecSources == InitSources /\ [][Next]_vars

(***************************************************************************)
(* One run of either kind, starting from an empty database: no community   *)
(* configured, or the communities above                                    *)
(***************************************************************************)
RunConfigs == {c \in Configs : c.IncludeVideos} \cup SourceConfigs

InitRuns == InitWith(RunConfigs, {{}})

SpecRuns == InitRuns /\ [][Next]_vars

\* the run as one thread that is never stopped from outside: a step that
\* can be taken is taken (every configuration, the database empty at start)
InitLive == InitWith(Configs, {{}})

SpecLive == InitLive /\ [][Next]_vars /\ WF_vars(Next)

(***************************************************************************)
(* The content store on its own: DownloadMedia called with any URL, post   *)
(* and response, any number of times (runs included: the store is all      *)
(* that a run leaves behind)                                               *)
(***************************************************************************)
\* the calls drawn: two posts of one group, two URLs with the same base
\* name, and the empty URL
StoreUrls == {Empty, UrlA, UrlB}

StorePosts == {pv \in PostViews : pv.ID <= 2}

\* both URLs end in .jpg, so the Content-Type header decides nothing here
StoreEnvs == EnvsOver(Contents, {CtJpeg})

\* where DownloadMedia would write the payload of response e
DestinationOf(mediaURL, postView, e) ==
    NewRecord(mediaURL, postView, e).FilePath

AcquireCall ==
    /\ \E mediaURL \in StoreUrls, postView \in StorePosts, e \in StoreEnvs :
       \E r \in {DownloadMedia(mediaURL, postView, e)} :
       LET fetchedOk == mediaURL # Empty /\ e.http = "ok"
       IN  /\ media' = r.media /\ files' = r.files /\ dirs' = r.dirs
           /\ last' = [op |-> "DownloadMedia", url |-> mediaURL, post |-> postView.ID,
                       err |-> r.err, result |-> r.result, fetches |-> r.fetches,
                       http |-> IF mediaURL = Empty THEN "none" ELSE e.http,
                       hash |-> IF fetchedOk THEN HashContent(e.body) ELSE Empty,
                       existed |-> (fetchedOk /\ \E m \in media : m.MediaHash = HashContent(e.body)),
                       path |-> IF fetchedOk THEN DestinationOf(mediaURL, postView, e) ELSE << >>]
    /\ UNCHANGED <<sched, ingested, scrapedPosts, cfg, build, scrapedComments, ctl, fetched, journal, halts, postLog, faults>>

StoreConfig == CHOOSE c \in Configs : TRUE

InitStore == InitWith({StoreConfig}, {{}}) /\ build = 1

SpecStore == InitStore /\ [][AcquireCall]_vars

(***************************************************************************)
(* The post ledger on its own: MarkPostAsScraped called for any post with  *)
(* any media count, any number of times                                    *)
(***************************************************************************)
MaxMediaCount == 2

MarkCall ==
    /\ \E postView \in PostViews, mediaCount \in 0..MaxMediaCount, fails \in BOOLEAN :
       /\ scrapedPosts' = IF fails THEN scrapedPosts ELSE MarkPostAsScraped(postView, mediaCount)
       /\ last' = [op |-> "MarkPostAsScraped", post |-> postView.ID, count |-> mediaCount, ok |-> ~fails,
                   replaced |-> {r.media_count : r \in {x \in scrapedPosts : x.post_id = postView.ID}}]
    /\ UNCHANGED <<sched, ingested, media, files, dirs, cfg, build, scrapedComments, ctl, fetched, journal, halts, postLog, faults>>

SpecLedger == InitStore /\ [][MarkCall]_vars

(***************************************************************************)
(* The locator on its own: extractMediaURLs called on any post whose three *)
(* URL fields are drawn from the URLs above or left empty                  *)
(***************************************************************************)
LocatorUrls == {Empty, UrlA, UrlB, UrlV, UrlT, UrlP}

LocatorPosts ==
    { [ID |-> 1, URL |-> u, EmbedVideoURL |-> v, ThumbnailURL |-> t, Community |-> <<"pics">>] :
      u \in LocatorUrls, v \in LocatorUrls, t \in LocatorUrls }

LocateCall ==
    /\ \E postView \in LocatorPosts :
       /\ posts' = <<postView>> /\ postIdx' = 1
       /\ mediaURLs' = extractMediaURLs(postView)
       /\ last' = [op |-> "extractMediaURLs"]
    /\ UNCHANGED <<sched, store, cfg, build, scrapedComments, pc, srcIdx, page, totalDownloaded, totalSkipped,
                   totalErrors, totalProcessed, consecutiveSeenPosts, limit, pageRes, urlIdx,
                   mediaDownloaded, fetched, journal, halts, postLog, ingested, faults>>

SpecLocator == InitStore /\ [][LocateCall]_vars

(***************************************************************************)
(* The content store called for posts of any community name: plain names,  *)
(* names with path separators, and the names "." and ".."                  *)
(***************************************************************************)
GroupNames == {<<"pics">>, <<"a", "/", "b">>, <<"..", "/", "x">>, <<".">>, <<"..">>}

GroupPosts ==
    { [ID |-> id, URL |-> UrlA, EmbedVideoURL |-> Empty, ThumbnailURL |-> Empty, Community |-> g] :
      id \in 1..2, g \in GroupNames }

\* a failed fetch, or a payload with at most a failing mkdir or insert
GroupEnvs ==
    [http : {"neterr"}]
    \cup [http : {"ok"}, body : Contents, ctype : {CtJpeg}, fault : {"none", "mkdir", "save"}]

GroupCall ==
    /\ \E postView \in GroupPosts, e \in GroupEnvs :
       \E r \in {DownloadMedia(UrlA, postView, e)} :
       /\ media' = r.media /\ files' = r.files /\ dirs' = r.dirs
       /\ last' = [op |-> "DownloadMedia", url |-> UrlA, post |-> postView.ID, group |-> postView.Community,
                   err |-> r.err, fetches |-> r.fetches,
                   dir |-> Join(BaseDir, sanitizePath(postView.Community))]
    /\ UNCHANGED <<sched, ingested, scrapedPosts, cfg, build, scrapedComments, ctl, fetched, journal, halts,
                   postLog, faults>>

SpecGroups == InitStore /\ [][GroupCall]_vars

(***************************************************************************)
(* The type filter followed by the content store: one pass of the media    *)
(* loop for any candidate URL, under any inclusion flags SetDefaults can   *)
(* leave and any Content-Type header                                       *)
(***************************************************************************)
TypeFlags == {f \in [1..3 -> BOOLEAN] : f[1] \/ f[2] \/ f[3]}

TypeConfigs ==
    {[StoreConfig EXCEPT !.IncludeImages = f[1], !.IncludeVideos = f[2], !.IncludeOtherMedia = f[3]] :
     f \in TypeFlags}

TypeUrls == {UrlA, UrlV, UrlT}

TypeEnvs ==
    [http : {"neterr"}]
    \cup [http : {"ok"}, body : Contents, ctype : ContentTypes, fault : {"none"}]

FilteredCall ==
    /\ \E mediaURL \in TypeUrls, postView \in StorePosts, e \in TypeEnvs :
       IF ~ShouldDownload(mediaURL, cfg.IncludeImages, cfg.IncludeVideos, cfg.IncludeOtherMedia)
       THEN /\ last' = [op |-> "ProcessMedia", url |-> mediaURL, post |-> postView.ID, called |-> FALSE,
                        seen |-> determineMediaType(CtNone, mediaURL), ctype |-> CtNone, err |-> Empty]
            /\ UNCHANGED <<media, files, dirs>>
       ELSE \E r \in {DownloadMedia(mediaURL, postView, e)} :
            /\ media' = r.media /\ files' = r.files /\ dirs' = r.dirs
            /\ last' = [op |-> "ProcessMedia", url |-> mediaURL, post |-> postView.ID, called |-> TRUE,
                        seen |-> determineMediaType(CtNone, mediaURL),
                        ctype |-> IF e.http = "ok" THEN e.ctype ELSE CtNone, err |-> r.err]
    /\ UNCHANGED <<sched, ingested, scrapedPosts, cfg, build, scrapedComments, ctl, fetched, journal, halts,
                   postLog, faults>>

InitTypes == InitWith(TypeConfigs, {{}}) /\ build = 1

SpecTypes == InitTypes /\ [][FilteredCall]_vars

(***************************************************************************)
(* Properties of the content store (checked under SpecStore)               *)
(***************************************************************************)

\* C1: in every reachable state, after any sequence of DownloadMedia calls
\* (failed calls included), no two media records share a fingerprint
C1_FingerprintUnique ==
    \A m1, m2 \in media : m1.MediaHash = m2.MediaHash => m1 = m2

\* two records are stored, and the last call brought a payload whose
\* fingerprint was already stored, for another post and URL
C1_Witness ==
    /\ Cardinality(media) = 2
    /\ last.op = "DownloadMedia" /\ last.existed /\ last.err = Empty
    /\ last.result.MediaURL # last.url /\ last.result.PostID # last.post

\* C2: a DownloadMedia call whose payload has the bytes of a payload already
\* stored writes no file and no database row, leaves exactly one record of
\* that fingerprint, and returns that record (the only other outcome is the
\* error of a failed lookup)
C2_DedupFastPath ==
    [][ (last'.op = "DownloadMedia" /\ last'.existed) =>
            /\ media' = media /\ files' = files /\ dirs' = dirs
            /\ scrapedPosts' = scrapedPosts
            /\ Cardinality({m \in media' : m.MediaHash = last'.hash}) = 1
            /\ last'.err \in {Empty, <<"failed to check media existence">>, <<"failed to get existing media">>}
            /\ last'.err = Empty =>
                   /\ last'.result \in media
                   /\ last'.result.MediaHash = last'.hash ]_vars

\* the second call for the same bytes came from a different URL and got the
\* first record back
C2_Witness ==
    /\ last.op = "DownloadMedia" /\ last.existed /\ last.err = Empty
    /\ last.result \in media
    /\ last.result.MediaURL # last.url
    /\ Cardinality(media) = 1

\* C8 (as claimed): a failed insert leaves no file at the destination, and
\* after any call every stored file has a media record
C8_NoOrphanFile ==
    /\ (last.op = "DownloadMedia" /\ Contains(last.err, "failed to save media to database"))
           => ~\E f \in files : f.path = last.path
    /\ \A f \in files : \E m \in media : m.FilePath = f.path

(***************************************************************************)
(* Properties of the post ledger (checked under SpecLedger)                *)
(***************************************************************************)

\* C9: the ledger holds at most one row per post id, and a successful
\* MarkPostAsScraped leaves for its post exactly the row of that call and
\* the rows of the other posts as they were, so every row carries the media
\* count of the most recent call for its id
C9_LedgerUpsert ==
    /\ [](\A r1, r2 \in scrapedPosts : r1.post_id = r2.post_id => r1 = r2)
    /\ [][ (last'.op = "MarkPostAsScraped" /\ last'.ok) =>
               /\ {r \in scrapedPosts' : r.post_id = last'.post}
                     = {[post_id |-> last'.post, had_media |-> last'.count > 0, media_count |-> last'.count]}
               /\ {r \in scrapedPosts' : r.post_id # last'.post}
                     = {r \in scrapedPosts : r.post_id # last'.post} ]_vars

\* a second call for a post id has overwritten a different media count
C9_Witness ==
    /\ last.op = "MarkPostAsScraped" /\ last.ok
    /\ last.replaced # {} /\ last.count \notin last.replaced
    /\ \E r \in scrapedPosts : r.post_id = last.post /\ r.media_count = last.count

(***************************************************************************)
(* Properties of a run (checked under Spec)                                *)
(***************************************************************************)
\* C3: with stop-on-seen enabled the counter never stands at the threshold
\* while a page is being worked on: the post at which it gets there ends
\* scrapePosts, nothing of that page after that post is triaged, downloaded
\* or marked, the post itself is only triaged, and the source gets no
\* further page request
C3_StopOnSeen ==
    /\ [](cfg.StopAtSeenPosts /\ consecutiveSeenPosts >= cfg.SeenPostsThreshold /\ pc \in {"loop", "triage", "media", "pageDone"}
              => /\ pc = "pageDone" /\ pageRes.shouldStop
                 /\ [src |-> srcIdx, page |-> page, idx |-> postIdx] \in halts)
    /\ [](\A h \in halts :
              /\ \A j \in journal :
                     (j.src = h.src /\ j.page = h.page) =>
                         /\ j.idx <= h.idx
                         /\ j.idx = h.idx => j.ev = "triage"
              /\ \A i \in 1..Len(fetched) :
                     fetched[i].src = h.src => fetched[i].page <= h.page)
    /\ [][(pc = "pageDone" /\ pageRes.shouldStop) => (pc' = "source" /\ srcIdx' = srcIdx + 1)]_vars

\* the threshold was reached before the last post of a page that holds a
\* post not yet visited, under pagination and below the maximum
C3_Witness ==
    /\ pc = "pageDone" /\ pageRes.shouldStop /\ cfg.EnablePagination
    /\ [src |-> srcIdx, page |-> page, idx |-> postIdx] \in halts
    /\ postIdx < Len(posts)
    /\ cfg.MaxPostsPerRun > totalProcessed + Len(posts)
    /\ \E i \in (postIdx + 1)..Len(posts) : ~\E r \in scrapedPosts : r.post_id = posts[i].ID

\* the posts of source s the range loop of scrapePosts has got to in this run
TriagedOf(s) == {j \in journal : j.ev = "triage" /\ j.src = s}

\* C4: for one source in one run the number of posts the loop has got to never
\* exceeds max_posts_per_run, and a page is requested only while both the
\* program's processed counter and that number of posts are below it
C4_HardCap ==
    /\ [](\A s \in 1..Len(Sources) : Cardinality(TriagedOf(s)) <= cfg.MaxPostsPerRun)
    /\ [][Len(fetched') > Len(fetched) =>
              /\ totalProcessed < cfg.MaxPostsPerRun
              /\ Cardinality(TriagedOf(srcIdx)) < cfg.MaxPostsPerRun
              /\ limit' <= cfg.MaxPostsPerRun - Cardinality(TriagedOf(srcIdx)) ]_vars

\* a second page was requested and as many posts as the maximum were handled
C4_Witness ==
    /\ Len(fetched) = 2 /\ fetched[2].page = 2
    /\ Cardinality(TriagedOf(srcIdx)) = cfg.MaxPostsPerRun
    /\ cfg.MaxPostsPerRun = 3
    /\ pc = "pageDone"

\* C5 (as claimed): after a page of fewer posts than requested that did not
\* stop on seen posts, the source is left: no further page is requested
C5_ShortPageStops ==
    [][(pc = "pageDone" /\ ~pageRes.shouldStop /\ Len(posts) < limit) => pc' = "source"]_vars

\* the record of the media loop of one post: the locator, then one entry
\* per candidate in order, then the mark
WellLogged(log, urls) ==
    /\ Len(log) = Len(urls) + 2
    /\ log[1] = [ev |-> "locate", n |-> Len(urls)]
    /\ \A i \in 1..Len(urls) : log[i + 1].ev \in {"filtered", "acquire"} /\ log[i + 1].url = urls[i]
    /\ log[Len(log)].ev = "mark"

\* C6: a post that enters the media loop leaves it only through
\* MarkPostAsScraped, called once, after every candidate URL was either
\* filtered or handed to DownloadMedia, in order, whatever the outcomes
\* were; a post of an earlier position that entered the loop has its mark
C6_MarkOnce ==
    /\ [](last.op = "MarkVisited" => WellLogged(postLog, mediaURLs))
    /\ [](pc = "media" =>
              /\ Len(postLog) = urlIdx
              /\ \A i \in 1..Len(postLog) : postLog[i].ev # "mark")
    /\ [](\A j \in journal :
              (j.ev = "triage" /\ j.d \in {"process", "reprocess"}
                  /\ ~(pc = "media" /\ j.src = srcIdx /\ j.page = page /\ j.idx = postIdx))
              => [ev |-> "mark", src |-> j.src, page |-> j.page, idx |-> j.idx, d |-> "-"] \in journal)
    /\ [][(pc = "media" /\ pc' # "media") => (last'.op = "MarkVisited" /\ urlIdx > Len(mediaURLs))]_vars

\* a post of two candidates was marked after one failed and one was stored
C6_Witness ==
    /\ last.op = "MarkVisited" /\ last.count = 1
    /\ Len(mediaURLs) = 2
    /\ pageRes.errors = 1 /\ pageRes.downloaded = 1
    /\ WellLogged(postLog, mediaURLs)

\* C7 (as claimed): a candidate whose payload has a fingerprint already
\* stored is counted as skipped
C7_DuplicateSkipped ==
    (last.op = "ProcessMedia" /\ last.called /\ last.existed /\ last.err = Empty)
        => last.counted = "skipped"

\* C10: triage of a post that has a ledger row, below the stop threshold,
\* under stop_at_seen_posts or skip_seen_posts: the step goes to the next
\* post, adds one to skipped and nothing to downloaded or errors, leaves the
\* ledger and the store as they were, and neither the locator nor
\* DownloadMedia nor MarkPostAsScraped is reached for that post
C10_SeenSkipped ==
    [][ ( /\ pc = "triage" /\ postIdx <= Len(posts)
          /\ \E r \in scrapedPosts : r.post_id = posts[postIdx].ID
          /\ ~(cfg.StopAtSeenPosts /\ consecutiveSeenPosts + 1 >= cfg.SeenPostsThreshold)
          /\ (cfg.StopAtSeenPosts \/ cfg.SkipSeenPosts)
          /\ last'.op = "TriagePost" /\ last'.lookup # "failed" )
        => /\ pc' = "triage" /\ postIdx' = postIdx + 1
           /\ scrapedPosts' = scrapedPosts /\ media' = media /\ files' = files /\ dirs' = dirs
           /\ pageRes' = [pageRes EXCEPT !.skipped = @ + 1]
           /\ postLog' = << >>
           /\ journal' = journal \cup {[ev |-> "triage", src |-> srcIdx, page |-> page, idx |-> postIdx, d |-> "skip"]}
           /\ UNCHANGED <<mediaURLs, urlIdx, mediaDownloaded>> ]_vars

\* a seen post was skipped under stop_at_seen_posts alone, and a later post
\* of the page was then worked on
C10_Witness ==
    /\ cfg.StopAtSeenPosts /\ ~cfg.SkipSeenPosts
    /\ pc = "media" /\ postIdx = 2
    /\ [ev |-> "triage", src |-> srcIdx, page |-> page, idx |-> 1, d |-> "skip"] \in journal
    /\ pageRes.skipped = 1
    /\ \E r \in scrapedPosts : r.post_id = posts[1].ID /\ r.media_count = 0

\* C11: with stop_at_seen_posts and skip_seen_posts both off, a post that
\* has a ledger row goes through the locator, the media loop over every
\* candidate and MarkPostAsScraped again; and a candidate whose response has
\* the bytes that an earlier DownloadMedia call for the same post and URL
\* returned a record for leaves the media records, the files and the
\* directories as they were
C11_ReprocessSafe ==
    /\ [][ ( /\ pc = "triage" /\ postIdx <= Len(posts)
             /\ \E r \in scrapedPosts : r.post_id = posts[postIdx].ID
             /\ ~cfg.StopAtSeenPosts /\ ~cfg.SkipSeenPosts
             /\ last'.op = "TriagePost" /\ last'.lookup # "failed" )
           => /\ pc' = "media" /\ postIdx' = postIdx
              /\ mediaURLs' = extractMediaURLs(posts[postIdx]) /\ urlIdx' = 1
              /\ postLog' = <<[ev |-> "locate", n |-> Len(mediaURLs')]>> ]_vars
    /\ [][ ( /\ pc = "media" /\ ~cfg.StopAtSeenPosts /\ ~cfg.SkipSeenPosts
             /\ \E r \in scrapedPosts : r.post_id = posts[postIdx].ID
             /\ last'.op = "MarkVisited" )
           => /\ WellLogged(postLog', mediaURLs)
              /\ media' = media /\ files' = files /\ dirs' = dirs ]_vars
    /\ [][ ( /\ pc = "media" /\ ~cfg.StopAtSeenPosts /\ ~cfg.SkipSeenPosts
             /\ \E r \in scrapedPosts : r.post_id = posts[postIdx].ID
             /\ last'.op = "ProcessMedia" /\ last'.called
             /\ [post |-> posts[postIdx].ID, url |-> last'.url, hash |-> last'.hash] \in ingested )
           => /\ media' = media /\ files' = files /\ dirs' = dirs
              /\ last'.err = Empty ]_vars

\* a post of two candidates came twice on one page: the second time it had
\* its ledger row, both candidates returned the bytes of the first time, and
\* it was marked again with one record stored
C11_Witness ==
    /\ ~cfg.StopAtSeenPosts /\ ~cfg.SkipSeenPosts
    /\ last.op = "MarkVisited" /\ last.ok
    /\ Len(posts) = 2 /\ postIdx = 3 /\ posts[1].ID = posts[2].ID
    /\ Len(mediaURLs) = 2
    /\ {[ev |-> "acquire", src |-> srcIdx, page |-> page, idx |-> i, d |-> "-"] : i \in 1..2} \subseteq journal
    /\ \A i \in 1..2 : \E g \in ingested : g.post = posts[1].ID /\ g.url = mediaURLs[i]
    /\ pageRes.errors = 0
    /\ Cardinality(media) = 1 /\ Cardinality(files) = 1

\* the type the filter sees in a URL is switched off in the configuration
TypeDisabled(url) ==
    LET mediaType == determineMediaType(CtNone, url)
    IN  \/ mediaType = "image" /\ ~cfg.IncludeImages
        \/ mediaType = "video" /\ ~cfg.IncludeVideos
        \/ mediaType = "other" /\ ~cfg.IncludeOtherMedia

\* C12: the step of the media loop at a candidate whose type is switched off
\* does not call DownloadMedia (store, acquire journal and the record of
\* returned media are as before), adds exactly one to skipped and nothing to
\* downloaded or errors, and goes to the next candidate
C12_FilterBeforeAcquire ==
    [][ (pc = "media" /\ urlIdx <= Len(mediaURLs) /\ TypeDisabled(mediaURLs[urlIdx]))
        => /\ last'.op = "ProcessMedia" /\ ~last'.called /\ last'.counted = "skipped"
           /\ media' = media /\ files' = files /\ dirs' = dirs /\ scrapedPosts' = scrapedPosts
           /\ journal' = journal /\ ingested' = ingested
           /\ pageRes' = [pageRes EXCEPT !.skipped = @ + 1]
           /\ mediaDownloaded' = mediaDownloaded
           /\ postLog' = Append(postLog, [ev |-> "filtered", url |-> mediaURLs[urlIdx]])
           /\ urlIdx' = urlIdx + 1 /\ pc' = "media" ]_vars

\* videos are off and the first post of the run had a video URL as its only
\* candidate: it was marked with no DownloadMedia call and one skip
C12_Witness ==
    /\ ~cfg.IncludeVideos
    /\ last.op = "MarkVisited" /\ last.count = 0
    /\ mediaURLs = <<UrlV>>
    /\ postLog = <<[ev |-> "locate", n |-> 1], [ev |-> "filtered", url |-> UrlV], [ev |-> "mark", n |-> 0]>>
    /\ ~\E j \in journal : j.ev = "acquire"
    /\ pageRes.skipped = 1 /\ pageRes.downloaded = 0 /\ pageRes.errors = 0
    /\ media = {} /\ files = {}

(***************************************************************************)
(* Properties of the locator (checked under SpecLocator)                   *)
(***************************************************************************)
\* the classifier as the locator applies it to one URL field
Passes(url) == url # Empty /\ isMediaURL(url)

\* C13: the locator returns <<primary, embed>> when both pass the
\* classifier, <<primary>> when the primary passes and the embed does not,
\* <<embed>> when the primary fails and the embed passes, <<thumbnail>> when
\* only the thumbnail passes and << >> when none passes; so the thumbnail
\* field is returned only when neither of the other two passes
C13_LocatorPriority ==
    last.op = "extractMediaURLs" =>
        LET pv == posts[1]
            p == Passes(pv.URL)
            e == Passes(pv.EmbedVideoURL)
            t == Passes(pv.ThumbnailURL)
        IN  /\ (p /\ e) => mediaURLs = <<pv.URL, pv.EmbedVideoURL>>
            /\ (p /\ ~e) => mediaURLs = <<pv.URL>>
            /\ (~p /\ e) => mediaURLs = <<pv.EmbedVideoURL>>
            /\ (~p /\ ~e /\ t) => mediaURLs = <<pv.ThumbnailURL>>
            /\ (~p /\ ~e /\ ~t) => mediaURLs = << >>

\* primary, embed and thumbnail all pass and differ: the thumbnail is left out
C13_Witness ==
    /\ last.op = "extractMediaURLs"
    /\ posts[1].URL = UrlA /\ posts[1].EmbedVideoURL = UrlV /\ posts[1].ThumbnailURL = UrlT
    /\ Passes(UrlT)
    /\ mediaURLs = <<UrlA, UrlV>>

\* C14 (as claimed): the list the locator returns holds no URL twice
C14_NoDuplicateURL ==
    last.op = "extractMediaURLs" =>
        \A i, j \in 1..Len(mediaURLs) : mediaURLs[i] = mediaURLs[j] => i = j

(***************************************************************************)
(* Properties of a run over communities (checked under SpecSources)        *)
(***************************************************************************)
\* C15: a page request that fails returns from scrapePosts at once with one
\* error and nothing else counted; the source is then left with that one
\* error added to its total, no later request is made for it, and every
\* source of the list has had its page 1 requested when Run returns, each
\* source's first request being for page 1
C15_FetchFailure ==
    /\ [][ (Len(fetched') > Len(fetched) /\ ~fetched'[Len(fetched')].ok)
           => /\ pc' = "pageDone"
              /\ pageRes' = [downloaded |-> 0, skipped |-> 0, errors |-> 1, postsReturned |-> 0, shouldStop |-> TRUE]
              /\ journal' = journal /\ scrapedPosts' = scrapedPosts /\ media' = media ]_vars
    /\ [][ (pc = "pageDone" /\ ~fetched[Len(fetched)].ok)
           => /\ pc' = "source" /\ srcIdx' = srcIdx + 1
              /\ totalErrors' = totalErrors + 1
              /\ totalDownloaded' = totalDownloaded /\ totalSkipped' = totalSkipped
              /\ fetched' = fetched ]_vars
    /\ [](\A i \in 1..Len(fetched) :
              /\ ~fetched[i].ok => \A k \in (i + 1)..Len(fetched) : fetched[k].src > fetched[i].src
              /\ (i = 1 \/ fetched[i].src # fetched[IF i = 1 THEN 1 ELSE i - 1].src) => fetched[i].page = 1)
    /\ [](pc = "exit" => \A n \in 1..Len(Sources) :
                             \E i \in 1..Len(fetched) : fetched[i].src = n /\ fetched[i].page = 1)

\* the request for page 2 of the first community failed, and the second
\* community's page 1 was then fetched and a post of it marked
C15_Witness ==
    /\ Len(Sources) = 2 /\ srcIdx = 2
    /\ Len(fetched) = 3
    /\ fetched[1].src = 1 /\ fetched[1].page = 1 /\ fetched[1].ok
    /\ fetched[2].src = 1 /\ fetched[2].page = 2 /\ ~fetched[2].ok
    /\ fetched[3].src = 2 /\ fetched[3].page = 1 /\ fetched[3].ok
    /\ last.op = "MarkVisited"

\* what the page would have added to totalProcessed had every failed
\* DownloadMedia call of the page returned a record
UnitsIfAcquired ==
    IF build = 1 THEN pageRes.downloaded + pageRes.skipped + pageRes.errors ELSE pageRes.postsReturned

\* C16 (as claimed): a DownloadMedia call that fails adds exactly one to the
\* error count and nothing to the other counts or the media table; the media
\* loop goes on with the next candidate, the post is marked and the next
\* post triaged; and after a page with failed calls the pagination loop
\* goes to the next page whenever the page was full and the loop would have
\* gone on, below the maximum, had those calls succeeded, a source that is
\* left being followed by the next
C16_FailureAbortsNothing ==
    /\ [][ (last'.op = "ProcessMedia" /\ last'.called /\ last'.err # Empty)
           => /\ pageRes' = [pageRes EXCEPT !.errors = @ + 1]
              /\ mediaDownloaded' = mediaDownloaded /\ media' = media
              /\ urlIdx' = urlIdx + 1 /\ pc' = "media" /\ postIdx' = postIdx ]_vars
    /\ [][ (pc = "media" /\ pc' # "media")
           => (last'.op = "MarkVisited" /\ pc' = "triage" /\ postIdx' = postIdx + 1
               /\ Len(postLog') = Len(mediaURLs) + 2) ]_vars
    /\ [][ (pc = "pageDone" /\ fetched[Len(fetched)].ok /\ pageRes.errors > 0)
           => /\ ( /\ ~pageRes.shouldStop /\ cfg.EnablePagination
                   /\ Len(posts) >= limit /\ UnitsIfAcquired >= limit
                   /\ totalProcessed + UnitsIfAcquired < cfg.MaxPostsPerRun )
                  => (pc' = "loop" /\ page' = page + 1 /\ srcIdx' = srcIdx)
              /\ pc' # "loop" => (pc' = "source" /\ srcIdx' = srcIdx + 1) ]_vars

\* C17: with enable_pagination off every request of the run is for page 1
\* and no source gets two requests, and the step after a page leaves the
\* source whatever the page held
C17_OnePageWithoutPagination ==
    /\ [](~cfg.EnablePagination =>
              /\ \A i \in 1..Len(fetched) : fetched[i].page = 1
              /\ \A i, j \in 1..Len(fetched) : fetched[i].src = fetched[j].src => i = j)
    /\ [][(~cfg.EnablePagination /\ pc = "pageDone") => (pc' = "source" /\ srcIdx' = srcIdx + 1)]_vars

\* pagination is off, the first community returned a full page of two posts
\* that were both triaged, and the run ended with one request per community
C17_Witness ==
    /\ ~cfg.EnablePagination /\ pc = "exit"
    /\ Len(fetched) = 2 /\ fetched[1].src = 1 /\ fetched[2].src = 2
    /\ fetched[1].limit = 2 /\ fetched[1].ok
    /\ \E j \in journal : j.ev = "triage" /\ j.src = 1 /\ j.page = 1 /\ j.idx = 2 /\ j.d # "stop"

(***************************************************************************)
(* More properties of the content store (checked under SpecStore)          *)
(***************************************************************************)
\* C18: in every reachable state, after any sequence of DownloadMedia calls,
\* no two media records have the same post id and the same media URL
C18_PostUrlUnique ==
    \A m1, m2 \in media : (m1.PostID = m2.PostID /\ m1.MediaURL = m2.MediaURL) => m1 = m2

\* a URL of a post served new bytes after a record of that post and URL was
\* stored: the insert was refused and the one record is the first one
C18_Witness ==
    /\ last.op = "DownloadMedia"
    /\ Contains(last.err, "UNIQUE constraint failed: scraped_media.post_id, scraped_media.media_url")
    /\ \E m \in media : m.PostID = last.post /\ m.MediaURL = last.url /\ m.MediaHash # last.hash
    /\ ~\E m \in media : m.MediaHash = last.hash

(***************************************************************************)
(* Properties of continuous mode (checked under SpecContinuousLive)        *)
(***************************************************************************)
\* a call of Scraper.Run is in progress
InRun == pc \in {"source", "loop", "triage", "media", "pageDone"}

\* C19: the arrival of a signal changes nothing but the signal channel;
\* runContinuous shuts down only from its select, after Run has returned,
\* and only with a signal in the channel; a run is left only by Run returning
\* after its last source; and a run during which a signal is waiting goes on
\* to that return
C19_SignalBetweenRuns ==
    /\ [][ (sigChan = << >> /\ sigChan' # << >>)
           => UNCHANGED <<store, cfg, build, scrapedComments, ctl, hist, tickPending, runs>> ]_vars
    /\ [][ pc' = "shutdown" => (pc = "shutdown" \/ (pc = "exit" /\ sigChan # << >>)) ]_vars
    /\ [][ (InRun /\ ~InRun') => (pc' = "exit" /\ last'.op = "RunReturn" /\ srcIdx > Len(Sources)) ]_vars
    /\ ((InRun /\ sigChan # << >>) ~> (pc = "exit" /\ last.op = "RunReturn"))

\* a signal arrived during a scheduled run before its first page request;
\* the run went on to fetch a page, store a payload and mark the post, and
\* has returned with the signal still waiting
C19_Witness ==
    /\ pc = "exit" /\ last.op = "RunReturn" /\ runs = 1
    /\ sigChan # << >> /\ sigChan[1].during = "loop" /\ sigChan[1].fetchedBefore = 0
    /\ Len(fetched) >= 1
    /\ \E j \in journal : j.ev = "acquire"
    /\ \E j \in journal : j.ev = "mark"
    /\ Cardinality(media) > sigChan[1].mediaBefore
    /\ Cardinality(scrapedPosts) > sigChan[1].ledgerBefore

\* position e of a source's feed comes before position h in this run
Before(e, h) == e.page < h.page \/ (e.page = h.page /\ e.idx < h.idx)

\* the seen posts met in a row up to and including the triage event h: the
\* skipped or stopping posts of h's source with no processed post between
\* them and h
Streak(h) ==
    Cardinality({e \in TriagedOf(h.src) :
        /\ e.d \in {"skip", "stop"}
        /\ (Before(e, h) \/ (e.page = h.page /\ e.idx = h.idx))
        /\ ~\E n \in TriagedOf(h.src) : n.d = "process" /\ Before(e, n) /\ Before(n, h)})

C21_NoMediaCountsOne ==
    ( /\ last.op = "PageReturn" /\ Len(posts) > 0
      /\ \A i \in 1..Len(posts) :
             /\ extractMediaURLs(posts[i]) = << >>
             /\ [ev |-> "triage", src |-> srcIdx, page |-> page, idx |-> i, d |-> "process"] \in journal
             /\ [ev |-> "mark", src |-> srcIdx, page |-> page, idx |-> i, d |-> "-"] \in journal )
        => (pageRes.skipped = Len(posts) /\ pageRes.downloaded + pageRes.skipped = Len(posts))

\* C22: a post that has a ledger row has one after every step of the
\* program, within a run and from one run to the next; after a successful
\* MarkPostAsScraped the post has a row; and every ledger lookup that
\* completes answers "seen" exactly for the posts that have a row
C22_LedgerDurable ==
    /\ [][ \A id \in {pv.ID : pv \in PostViews} :
               (\E r \in scrapedPosts : r.post_id = id) => (\E r \in scrapedPosts' : r.post_id = id) ]_vars
    /\ []((last.op = "MarkVisited" /\ last.ok) => \E r \in scrapedPosts : r.post_id = last.post)
    /\ []((last.op = "TriagePost" /\ last.lookup # "failed")
              => (last.lookup = "seen" <=> \E r \in scrapedPosts : r.post_id = last.post))

\* the ledger was empty when the program started; the scheduled run that
\* followed the first run looks up a post the first run marked and finds it
C22_Witness ==
    /\ runs = 1
    /\ last.op = "TriagePost" /\ last.lookup = "seen"
    /\ \E r \in scrapedPosts : r.post_id = last.post

(***************************************************************************)
(* Properties of the destination directory (checked under SpecGroups)      *)
(***************************************************************************)
\* path p lies in directory d or below it
Under(d, p) == Len(p) >= Len(d) /\ SubSeq(p, 1, Len(d)) = d

\* C23: after any sequence of DownloadMedia calls, whatever the community
\* names of the posts, every directory DownloadMedia has made and every file
\* it has written lies under the base directory
C23_InsideBaseDir ==
    /\ \A d \in dirs : Under(BaseDir, d)
    /\ \A f \in files : Under(BaseDir, f.path)

(***************************************************************************)
(* Properties of Run's choice of sources (checked under SpecRuns)          *)
(***************************************************************************)
FirstPage(f) == f.page = 1

\* the sources scrapeWithPagination has been entered for in this run, in
\* order (every entry requests page 1, and only an entry does)
Invoked == [i \in 1..Len(SelectSeq(fetched, FirstPage)) |-> SelectSeq(fetched, FirstPage)[i].source]

\* what Run is to ingest: the default feed alone when no community is
\* configured, else the communities as configured
Expected == IF cfg.Communities = << >> THEN <<"hot">> ELSE cfg.Communities

\* C24: at every point of a run the sources ingested so far are the first
\* ones of the expected list, in order and each once; when Run returns they
\* are the whole list; every entry of scrapeWithPagination is for the
\* expected source and happens with no other ingestion in progress; and
\* every page request goes to the source of the ingestion in progress
C24_OncePerSource ==
    /\ [](/\ Len(Invoked) <= Len(Expected)
          /\ \A i \in 1..Len(Invoked) : Invoked[i] = Expected[i])
    /\ []((pc = "exit" /\ last.op = "RunReturn") => Invoked = Expected)
    /\ [][ last'.op = "scrapeWithPagination" /\ last' # last
              => /\ pc = "source" /\ pc' = "loop" /\ page' = 1
                 /\ last'.source = Expected[Len(Invoked) + 1]
                 /\ fetched' = fetched ]_vars
    /\ [][ Len(fetched') > Len(fetched)
              => /\ fetched'[Len(fetched')].source = Expected[Len(Invoked')]
                 /\ (fetched'[Len(fetched')].page = 1 <=> last.op = "scrapeWithPagination") ]_vars

\* two communities are configured; Run has returned after ingesting the
\* first over two pages and the second after it, and never the hot page
C24_Witness ==
    /\ pc = "exit" /\ last.op = "RunReturn"
    /\ cfg.Communities = <<"pics", "memes">>
    /\ Invoked = <<"pics", "memes">>
    /\ Len(fetched) = 3 /\ fetched[2].page = 2 /\ fetched[2].source = "pics"
    /\ \A i \in 1..Len(fetched) : fetched[i].source # "hot"

(***************************************************************************)
(* Failing calls of the content store (checked under SpecStore)            *)
(***************************************************************************)
\* C25: a DownloadMedia call with an empty URL, or whose request fails or is
\* answered with a status other than 200, returns an error and no record,
\* leaves the media table, the files, the directories and the ledger as
\* they were, and has sent at most one request (none for an empty URL)
C25_FailFast ==
    [][ ( /\ last'.op = "DownloadMedia"
          /\ (last'.url = Empty \/ last'.http \in {"neterr", "status"}) )
        => /\ media' = media /\ files' = files /\ dirs' = dirs /\ scrapedPosts' = scrapedPosts
           /\ last'.err # Empty /\ last'.result = NoMedia
           /\ last'.fetches = (IF last'.url = Empty THEN 0 ELSE 1) ]_vars

\* a request answered with a non-success status, made when the store
\* already held a record and its file
C25_Witness ==
    /\ last.op = "DownloadMedia" /\ last.url # Empty /\ last.http = "status"
    /\ last.err = <<"download failed with status">> /\ last.fetches = 1
    /\ media # {} /\ \A m \in media : \E f \in files : f.path = m.FilePath

\* C26: after any sequence of DownloadMedia calls, every media record has a
\* file at its stored path, and the bytes of that file hash to the record's
\* fingerprint
C26_RecordHasFile ==
    \A m \in media : \E f \in files : f.path = m.FilePath /\ HashContent(f.content) = m.MediaHash

(***************************************************************************)
(* Further properties of a run (checked under Spec)                        *)
(***************************************************************************)
\* C27: when scrapePosts has returned without shouldStop from a page that
\* held as many posts as were requested, pagination is enabled, and the
\* maximum is reached neither by the posts nor by the units counted so far,
\* scrapeWithPagination goes on to the next page of the same source
C27_FullPageContinues ==
    [][ ( /\ pc = "pageDone" /\ ~pageRes.shouldStop
          /\ Len(posts) = limit
          /\ cfg.EnablePagination
          /\ totalProcessed + Len(posts) < cfg.MaxPostsPerRun
          /\ totalProcessed + pageRes.downloaded + pageRes.skipped < cfg.MaxPostsPerRun )
        => (pc' = "loop" /\ page' = page + 1 /\ srcIdx' = srcIdx) ]_vars

(***************************************************************************)
(* Termination of a source's ingestion (checked under SpecLive)            *)
(***************************************************************************)
\* C28: the page requests made for one source never outnumber
\* max_posts_per_run; every pass of the pagination loop that goes on to
\* another page has raised the cumulative count; and an ingestion that is
\* in its pagination loop gets back to Run
C28_IngestionTerminates ==
    /\ [](\A n \in 1..Len(fetched) :
              Cardinality({i \in 1..Len(fetched) : fetched[i].src = fetched[n].src}) <= cfg.MaxPostsPerRun)
    /\ [][ (pc = "pageDone" /\ pc' = "loop") => (totalProcessed' > totalProcessed /\ page' = page + 1) ]_vars
    /\ ((pc \in {"loop", "triage", "media", "pageDone"}) ~> (pc = "source"))

\* full pages were returned until the maximum was reached: the source got
\* two page requests for a maximum of three posts and its ingestion is over
C28_Witness ==
    /\ pc = "source" /\ last.op = "LimitReached"
    /\ cfg.MaxPostsPerRun = 3 /\ Len(fetched) = 2
    /\ fetched[1].limit = 2 /\ fetched[2].limit = 1

\* the candidates of the post in progress for which DownloadMedia inserted a
\* media record
NewlyStored == {i \in 1..Len(postLog) : postLog[i].ev = "acquire" /\ postLog[i].new}

\* C29: after a successful MarkPostAsScraped the ledger row of the post
\* carries as media count the number of the post's candidates for which a
\* media record was inserted during this processing, and had_media is true
\* exactly when that number is positive
C29_CountsNewRecords ==
    (last.op = "MarkVisited" /\ last.ok)
        => \E r \in scrapedPosts :
               /\ r.post_id = last.post
               /\ r.media_count = Cardinality(NewlyStored)
               /\ r.had_media = (Cardinality(NewlyStored) > 0)

(***************************************************************************)
(* The counter of seen posts (checked under SpecSources)                   *)
(***************************************************************************)
\* the posts of the source in progress that the ledger lookup found, met
\* since the last post it did not find (posts whose lookup failed are
\* passed over by the loop and are neither)
SeenSinceNew ==
    {e \in TriagedOf(srcIdx) :
        /\ e.d \in {"skip", "stop", "reprocess"}
        /\ ~\E n \in TriagedOf(srcIdx) : n.d = "process" /\ Before(e, n)}

\* C30: the triage of a post that has no ledger row sets the counter to
\* zero; throughout the ingestion of a source the counter is the number of
\* posts found in the ledger since the last post not found in it (or since
\* the source was entered); and a stop of the seen-post policy happens only
\* under stop_at_seen_posts with that number at the threshold or above
C30_CounterIsStreak ==
    /\ [][ (pc = "triage" /\ last'.op = "TriagePost" /\ last'.lookup = "new")
              => /\ consecutiveSeenPosts' = 0
                 /\ ~\E r \in scrapedPosts : r.post_id = posts[postIdx].ID ]_vars
    /\ [](pc \in {"loop", "triage", "media", "pageDone"}
              => consecutiveSeenPosts = Cardinality(SeenSinceNew))
    /\ []((last.op = "TriagePost" /\ last.decision = "stop")
              => (cfg.StopAtSeenPosts /\ Cardinality(SeenSinceNew) >= cfg.SeenPostsThreshold))

\* threshold two: a seen post was skipped, a new post was processed, and the
\* next seen post is skipped with the counter at one, where a counter that
\* had not been reset would have stopped the source
C30_Witness ==
    /\ cfg.StopAtSeenPosts /\ cfg.SeenPostsThreshold = 2
    /\ last.op = "TriagePost" /\ last.decision = "skip"
    /\ consecutiveSeenPosts = 1
    /\ \E e, n \in TriagedOf(srcIdx) : e.d = "skip" /\ n.d = "process" /\ Before(e, n)

C32_NoDisabledType ==
    \A m \in media :
        /\ m.MediaType = "image" => cfg.IncludeImages
        /\ m.MediaType = "video" => cfg.IncludeVideos
        /\ m.MediaType = "other" => cfg.IncludeOtherMedia

(***************************************************************************)
(* The seen-post streak across pages (checked under Spec)                  *)
(***************************************************************************)
\* the seen posts at the end of page p of the source in progress: those
\* with no processed post after them on that page
SeenAtEnd(p) ==
    {e \in TriagedOf(srcIdx) :
        /\ e.page = p /\ e.d \in {"skip", "stop", "reprocess"}
        /\ ~\E n \in TriagedOf(srcIdx) : n.page = p /\ n.d = "process" /\ n.idx > e.idx}

\* the seen posts at the start of page p, up to position i: those with no
\* processed post before them on that page
SeenAtStart(p, i) ==
    {e \in TriagedOf(srcIdx) :
        /\ e.page = p /\ e.idx <= i /\ e.d \in {"skip", "stop", "reprocess"}
        /\ ~\E n \in TriagedOf(srcIdx) : n.page = p /\ n.d = "process" /\ n.idx < e.idx}

\* C33: from the return of scrapePosts to the first triage of the next page
\* the counter of seen posts keeps its value; and under stop_at_seen_posts
\* the triage of a seen post on a page after the first stops the source
\* when the seen posts at the end of the page before and those at the start
\* of this page, this post included, together reach the threshold
C33_StreakAcrossPages ==
    /\ [][ ((pc = "pageDone" /\ pc' = "loop") \/ (pc = "loop" /\ pc' = "triage"))
              => consecutiveSeenPosts' = consecutiveSeenPosts ]_vars
    /\ []( ( /\ cfg.StopAtSeenPosts /\ page > 1
              /\ last.op = "TriagePost" /\ last.lookup = "seen"
              /\ \E e \in SeenAtStart(page, Len(posts)) :
                     /\ \A i \in 1..Len(posts) :
                            (\E x \in TriagedOf(srcIdx) : x.page = page /\ x.idx = i) => i <= e.idx
                     /\ Cardinality(SeenAtEnd(page - 1)) + Cardinality(SeenAtStart(page, e.idx))
                            >= cfg.SeenPostsThreshold )
            => (last.decision = "stop" /\ pc = "pageDone" /\ pageRes.shouldStop) )

\* threshold two: page 1 was a new post followed by a seen post, which was
\* skipped; the first post of page 2 is a seen post and stops the source
C33_Witness ==
    /\ cfg.StopAtSeenPosts /\ cfg.SeenPostsThreshold = 2
    /\ page = 2 /\ postIdx = 1 /\ pc = "pageDone" /\ pageRes.shouldStop
    /\ last.op = "TriagePost" /\ last.decision = "stop"
    /\ [ev |-> "triage", src |-> srcIdx, page |-> 1, idx |-> 1, d |-> "process"] \in journal
    /\ [ev |-> "triage", src |-> srcIdx, page |-> 1, idx |-> 2, d |-> "skip"] \in journal

(***************************************************************************)
(* Shutdown against a pending tick (checked under SpecContinuous)          *)
(***************************************************************************)
\* C34: while a delivered signal waits in the channel, runContinuous starts
\* no scrape run: no step takes the loop from its select to the start of
\* Run
C34_NoRunAfterSignal ==
    [][ sigChan # << >> => ~(pc = "exit" /\ pc' = "start") ]_vars

(***************************************************************************)
(* Run state from one source to the next (checked under SpecSources)       *)
(***************************************************************************)
\* the posts of source n this run found in the ledger
SeenOf(n) == {e \in TriagedOf(n) : e.d \in {"skip", "stop", "reprocess"}}

\* C35: the entry of a source's ingestion sets the page to 1 and the four
\* totals and the counter of seen posts to zero and leaves the ledger, the
\* media table and the files as they were; the first request of a source is
\* for page 1 with the limit of a source that has processed nothing; a stop
\* of the seen-post policy has at least the threshold of seen posts of the
\* source itself; and the maximum ends a source only after a page of that
\* source was requested
C35_RunStatePerSource ==
    /\ [][ (pc = "source" /\ pc' = "loop")
              => /\ page' = 1 /\ consecutiveSeenPosts' = 0
                 /\ totalDownloaded' = 0 /\ totalSkipped' = 0 /\ totalErrors' = 0 /\ totalProcessed' = 0
                 /\ scrapedPosts' = scrapedPosts /\ media' = media /\ files' = files /\ dirs' = dirs ]_vars
    /\ [](\A i \in 1..Len(fetched) :
              (i = 1 \/ fetched[IF i = 1 THEN 1 ELSE i - 1].src # fetched[i].src)
                 => /\ fetched[i].page = 1
                    /\ fetched[i].limit = IF cfg.MaxPostsPerRun < ApiPageLimit
                                           THEN cfg.MaxPostsPerRun ELSE ApiPageLimit)
    /\ []((last.op = "TriagePost" /\ last.decision = "stop")
              => Cardinality(SeenOf(srcIdx)) >= cfg.SeenPostsThreshold)
    /\ [](last.op = "LimitReached" => \E i \in 1..Len(fetched) : fetched[i].src = srcIdx - 1)

\* threshold two: the first community ended on a seen post, and the first
\* post of the second community is a seen post that does not stop it
C35_Witness ==
    /\ cfg.StopAtSeenPosts /\ cfg.SeenPostsThreshold = 2
    /\ srcIdx = 2 /\ page = 1 /\ postIdx = 2
    /\ last.op = "TriagePost" /\ last.lookup = "seen" /\ last.decision # "stop"
    /\ consecutiveSeenPosts = 1
    /\ \E e \in SeenOf(1) : \A n \in TriagedOf(1) : n = e \/ Before(n, e)

(***************************************************************************)
(* A ledger lookup that fails (checked under Spec)                         *)
(***************************************************************************)
\* C36: the triage of a post whose ledger lookup fails goes to the next
\* post of the page with the page's downloaded, skipped and error counts,
\* the totals, the counter of seen posts, the ledger, the media table and
\* the files unchanged and with no locate, acquire or mark event for the
\* post; the step after it is the triage of the next post or the return of
\* the page
C36_LookupFailurePassesOver ==
    /\ [][ (journal' # journal /\ last'.op = "TriagePost" /\ last'.lookup = "failed")
              => /\ pc' = "triage" /\ postIdx' = postIdx + 1
                 /\ pageRes' = pageRes /\ consecutiveSeenPosts' = consecutiveSeenPosts
                 /\ totalDownloaded' = totalDownloaded /\ totalSkipped' = totalSkipped
                 /\ totalErrors' = totalErrors /\ totalProcessed' = totalProcessed
                 /\ scrapedPosts' = scrapedPosts /\ media' = media /\ files' = files
                 /\ postLog' = << >> ]_vars
    /\ [][ (pc = "triage" /\ last.op = "TriagePost" /\ last.lookup = "failed")
              => /\ last'.op \in {"TriagePost", "PageReturn"}
                 /\ last'.op = "TriagePost" <=> postIdx <= Len(posts)
                 /\ last'.op = "TriagePost" => last'.post = posts[postIdx].ID ]_vars

\* the first post of the page was a seen post and was skipped; the lookup
\* of the second, which is in the ledger too, failed: the counter is still
\* one, one post is counted as skipped and the page is at its end
C36_Witness ==
    /\ pc = "triage" /\ page = 1 /\ postIdx = 3 /\ Len(posts) = 2
    /\ last.op = "TriagePost" /\ last.lookup = "failed"
    /\ \E r \in scrapedPosts : r.post_id = last.post
    /\ [ev |-> "triage", src |-> srcIdx, page |-> 1, idx |-> 1, d |-> "skip"] \in journal
    /\ consecutiveSeenPosts = 1
    /\ pageRes = [downloaded |-> 0, skipped |-> 1, errors |-> 0, postsReturned |-> 2, shouldStop |-> FALSE]
    /\ postLog = << >>

(***************************************************************************)
(* Order of pages and posts (checked under SpecSources)                    *)
(***************************************************************************)
\* the triage event of position i of page p of source n, if there is one
\* in this run
TriageAt(n, p, i) == {e \in TriagedOf(n) : e.page = p /\ e.idx = i}

\* C37: the k-th request of a source is for page k; a request for a page
\* after the first is made only when every post of the page before has had
\* its triage and, unless it was skipped or passed over, its mark; and a
\* triage is of the post at the next position of the page last requested,
\* after every triage this source has had
C37_PagesAndPostsInOrder ==
    /\ [](\A i \in 1..Len(fetched) :
              fetched[i].page = Cardinality({k \in 1..i : fetched[k].src = fetched[i].src}))
    /\ [][ (Len(fetched') > Len(fetched) /\ fetched'[Len(fetched')].page > 1)
              => /\ fetched[Len(fetched)].src = srcIdx
                 /\ fetched[Len(fetched)].page = fetched'[Len(fetched')].page - 1
                 /\ \A i \in 1..Len(posts) :
                        /\ TriageAt(srcIdx, page - 1, i) # {}
                        /\ \A e \in TriageAt(srcIdx, page - 1, i) :
                               /\ e.d \in {"skip", "continue", "process", "reprocess"}
                               /\ e.d \in {"process", "reprocess"}
                                     => [ev |-> "mark", src |-> srcIdx, page |-> page - 1,
                                         idx |-> i, d |-> "-"] \in journal ]_vars
    /\ [][ \A e \in journal' \ journal :
               e.ev = "triage"
                  => /\ e.src = fetched[Len(fetched)].src /\ e.page = fetched[Len(fetched)].page
                     /\ \A o \in TriagedOf(e.src) : Before(o, e)
                     /\ e.idx = 1 \/ TriageAt(e.src, e.page, e.idx - 1) # {}
                     /\ e.idx \in 1..Len(posts) /\ last'.post = posts[e.idx].ID ]_vars

\* the second community's second page is being triaged: its first page of
\* two posts was triaged and marked in order, and the first community had
\* its own pages 1 and 2 before
C37_Witness ==
    /\ srcIdx = 2 /\ page = 2 /\ last.op = "TriagePost"
    /\ Len(fetched) = 4
    /\ fetched[1].src = 1 /\ fetched[1].page = 1 /\ fetched[2].src = 1 /\ fetched[2].page = 2
    /\ fetched[3].src = 2 /\ fetched[3].page = 1 /\ fetched[4].src = 2 /\ fetched[4].page = 2
    /\ TriageAt(2, 1, 1) # {} /\ TriageAt(2, 1, 2) # {} /\ TriageAt(2, 2, 1) # {}
    /\ [ev |-> "mark", src |-> 2, page |-> 1, idx |-> 2, d |-> "-"] \in journal

====
